---- MODULE Spec2Model ----
(***************************************************************************)
(* The data-generation pipeline of visual-pde: the browser pool            *)
(* (src/datagen/browser-pool.ts), the orchestrator with its retry loop     *)
(* (src/datagen/orchestrator.ts), the frame loop of the simulation runner  *)
(* (src/datagen/simulation-runner.ts) and the batch command that drives    *)
(* them (src/datagen/index.ts).                                            *)
(*                                                                         *)
(* JavaScript runs every handler to its next await without interleaving,   *)
(* so one action is one such run-to-await segment of one async function.   *)
(* Calls into puppeteer and the file system may reject; each such outcome  *)
(* is a separate action.                                                   *)
(***************************************************************************)
EXTENDS Integers, Sequences, FiniteSets, TLC

\* ---- bounds of the model (configuration values of one batch) ----
NumJobs == 3
PoolSize == 2
Concurrency == 2
MaxRetries == 1
MaxSimsPerBrowser == 2
TotalFrames == 1
\* the disturbances of one batch: the attempts in which a call of the run or
\* of releasePage rejects, and a shutdown while jobs run
MaxFaults == 2
\* the largest frame index whose file name is compared with its padded form
MaxFrameIndex == 1200
\* one run looked at step by step: the largest totalFrames, the
\* timestepsPerFrame, and the longest list of interventions of its config
RunnerFrames == 2
TimestepsPerFrame == 2
MaxInterventions == 3
\* one call of the config generator: the largest totalFrames and the largest
\* bound of the frequency range
GenFrames == 5
GenMaxFrequency == 3

\* ---- program constants ----
DefaultMaxSims == 50
BackoffBase == 1000
PadWidth == 6

Jobs == 1..NumJobs
NoPage == 0

VARIABLES
  \* BrowserPool
  browsers,            \* this.browsers (the order of the array is never read)
  availablePages,      \* this.availablePages, a stack: push and pop at the end
  busyPages,           \* this.busyPages
  simCountPerBrowser,  \* this.simCountPerBrowser, a map: browser -> count
  isShuttingDown,      \* this.isShuttingDown
  pageBrowser,         \* page.browser() of every page some reference still names
  \* Orchestrator
  status,              \* job.status, "absent" before runBatch fills this.jobs
  retryCount,          \* job.retryCount
  backoffs,            \* per job: the delays of the retry timers set, in order
  completedCount,      \* this.completedCount
  failedCount,         \* this.failedCount
  results,             \* results of runBatch: the jobs whose metadata was pushed
                       \* (each at most once; the order of the array is not kept)
  \* one runWithRetry call per job
  pc,                  \* where the job's queue task stands
  attempt,             \* the loop variable of runWithRetry
  page,                \* the page the attempt holds, NoPage when none
  runOk,               \* the attempt's run returned metadata (a pending return)
  \* the file system under the batch output directory
  frameFiles,          \* per job: the names present in <outputDir>/frames
  errorDocs,           \* per job: the retryCount of every error.json written
  indexDocs,           \* every index.json written, in order
  \* the batch command, and a caller of shutdown outside it
  mainPc,
  earlyPc,
  faults,              \* the disturbances so far
  \* history of calls, per job
  runCalls,            \* invocations of SimulationRunner.run
  runSuccesses,        \* invocations of run that returned metadata
  acquireCalls,        \* acquirePage calls that returned a page
  acquireFails,        \* acquirePage calls that threw
  releaseCalls,        \* releasePage calls
  errorWriteFails,     \* writes of error.json that rejected
  metadataDocs,        \* per job: the writes of metadata.json that resolved
  recycles,            \* calls of restartBrowser
  lateAcquires,        \* acquirePage calls that returned a page while the
                       \* pool was shutting down
  processes,           \* the browser processes launched and not yet closed
  frameWriter,         \* per job: for every frame file, the call of run
                       \* (counted per job) that wrote it last
  \* one call of SimulationRunner.run, looked at step by step
  rcfg,                \* its SimulationConfig
  rpc,                 \* the await the run stands at
  frame,               \* the loop variable of the frame loop
  interventions,       \* the sorted copy of config.interventions
  interventionIndex,
  frameAnnotations,
  simTime,             \* intervention.simulationTime, by position in the list
  solverSteps,         \* timesteps of the solver since its last reset
  doc,                 \* the document of the page the run was given
  rlog,                \* the calls that resolved, in order
  \* one call of generateRandomInterventions, draw by draw
  gcfg,                \* its arguments: totalFrames and the frequency range
  gpc,
  gframe,              \* its local variable frame
  glist                \* the frames of its local array interventions

poolVars == <<browsers, availablePages, busyPages, simCountPerBrowser,
              isShuttingDown, pageBrowser>>
orchVars == <<status, retryCount, completedCount, failedCount, results,
              backoffs>>
taskVars == <<pc, attempt, page, runOk>>
fsVars   == <<frameFiles, errorDocs, indexDocs>>
histVars == <<runCalls, runSuccesses, acquireCalls, acquireFails, releaseCalls,
              errorWriteFails>>
mainVars == <<mainPc, earlyPc>>
countVars == <<metadataDocs, recycles, lateAcquires>>
traceVars == <<processes, frameWriter>>
batchVars == <<poolVars, orchVars, taskVars, fsVars, mainVars, faults, histVars,
               countVars, traceVars>>
runnerVars == <<rcfg, rpc, frame, interventions, interventionIndex,
                frameAnnotations, simTime, solverSteps, doc, rlog>>
genVars == <<gcfg, gpc, gframe, glist>>
vars == <<batchVars, runnerVars, genVars>>

\* ---- helpers ----
Range(s) == {s[i] : i \in DOMAIN s}

Restrict(f, S) == [x \in S |-> f[x]]

\* the smallest positive identifier outside S: a newly created object is
\* distinct from every object still referenced
Fresh(S) == CHOOSE n \in 1..(Cardinality(S) + 1) :
              /\ n \notin S
              /\ \A m \in 1..(n - 1) : m \in S

HeldPages == {page[j] : j \in Jobs} \ {NoPage}
LivePages == Range(availablePages) \cup busyPages \cup HeldPages
LiveBrowsers == browsers \cup processes \cup DOMAIN simCountPerBrowser
                  \cup {pageBrowser[p] : p \in DOMAIN pageBrowser}

\* ---- simulation-runner.ts: saveFrame's file name ----
RECURSIVE Digits(_)
Digits(n) == IF n < 10 THEN <<n>> ELSE Append(Digits(n \div 10), n % 10)

RECURSIVE PadStart(_, _, _)
PadStart(s, width, fill) ==
  IF Len(s) >= width THEN s ELSE PadStart(<<fill>> \o s, width, fill)

\* a one-based frame number in the file name
FrameFileNameOneBased(frameIndex) == PadStart(Digits(frameIndex + 1), PadWidth, 0)

FrameFileName(frameIndex) == PadStart(Digits(frameIndex), PadWidth, 0)

\* ---- browser-pool.ts ----
\* a threshold that lets a browser serve one lease too many
maxSimsOffByOne ==
  (IF MaxSimsPerBrowser = 0 THEN DefaultMaxSims ELSE MaxSimsPerBrowser) + 1

maxSims == IF MaxSimsPerBrowser = 0 THEN DefaultMaxSims ELSE MaxSimsPerBrowser

\* a pop that reads the last page and leaves it in the array
PopRestKeep(avail) == avail

\* availablePages.pop(): the array that remains
PopRest(avail) == SubSeq(avail, 1, Len(avail) - 1)
PopTop(avail) == avail[Len(avail)]

\* a release that leaves the page in the busy set
BusyAfterReleaseKeep(busy, p) == busy

\* busyPages.delete(page)
BusyAfterRelease(busy, p) == busy \ {p}

\* the catch branch of releasePage: the replacement page is the one pushed
ResetFailedPush(avail, oldPage, newPage) == Append(avail, newPage)

\* a limit that admits one task too many
QueueHasRoomOffByOne(running) == running <= Concurrency

\* p-queue: a queued task starts while fewer than `concurrency` tasks run
Running == {j \in Jobs : pc[j] \notin {"queued", "done"}}
QueueHasRoom(running) == running < Concurrency

TypeOK ==
  /\ busyPages \subseteq Nat
  /\ isShuttingDown \in BOOLEAN
  /\ completedCount \in Nat /\ failedCount \in Nat
  /\ status \in [Jobs -> {"absent", "pending", "running", "completed", "failed"}]
  /\ pc \in [Jobs -> {"queued", "acquire", "run", "relReset", "relRestart",
                      "backoff", "errdoc", "done"}]
  /\ attempt \in [Jobs -> 0..(MaxRetries + 1)]
  /\ mainPc \in {"initialize", "jobs", "finally", "draining", "exit"}
  /\ earlyPc \in {"idle", "draining", "closed"}

\* no run is looked at step by step
RunnerIdle ==
  /\ rcfg = [interventions |-> <<>>, randomSeed |-> FALSE, options |-> FALSE,
             totalFrames |-> 0]
  /\ rpc = "idle"
  /\ frame = 0
  /\ interventions = <<>>
  /\ interventionIndex = 0
  /\ frameAnnotations = <<>>
  /\ simTime = <<>>
  /\ solverSteps = 0
  /\ doc = "blank"
  /\ rlog = <<>>

InitBatch ==
  /\ browsers = {}
  /\ availablePages = <<>>
  /\ busyPages = {}
  /\ simCountPerBrowser = <<>>
  /\ isShuttingDown = FALSE
  /\ pageBrowser = <<>>
  /\ status = [j \in Jobs |-> "absent"]
  /\ retryCount = [j \in Jobs |-> 0]
  /\ backoffs = [j \in Jobs |-> <<>>]
  /\ completedCount = 0
  /\ failedCount = 0
  /\ results = {}
  /\ pc = [j \in Jobs |-> "queued"]
  /\ attempt = [j \in Jobs |-> 0]
  /\ page = [j \in Jobs |-> NoPage]
  /\ runOk = [j \in Jobs |-> FALSE]
  /\ frameFiles = [j \in Jobs |-> {}]
  /\ errorDocs = [j \in Jobs |-> <<>>]
  /\ indexDocs = <<>>
  /\ mainPc = "initialize"
  /\ earlyPc = "idle"
  /\ faults = 0
  /\ runCalls = [j \in Jobs |-> 0]
  /\ runSuccesses = [j \in Jobs |-> 0]
  /\ acquireCalls = [j \in Jobs |-> 0]
  /\ acquireFails = [j \in Jobs |-> 0]
  /\ releaseCalls = [j \in Jobs |-> 0]
  /\ errorWriteFails = [j \in Jobs |-> 0]
  /\ metadataDocs = [j \in Jobs |-> 0]
  /\ recycles = 0
  /\ lateAcquires = 0
  /\ processes = {}
  /\ frameWriter = [j \in Jobs |-> <<>>]

\* no call of the config generator is looked at
GeneratorIdle ==
  /\ gcfg = [totalFrames |-> 0, min |-> 1, max |-> 1]
  /\ gpc = "idle"
  /\ gframe = 0
  /\ glist = <<>>

Init == InitBatch /\ RunnerIdle /\ GeneratorIdle

\* one more of the MaxFaults disturbances of the batch
Fault == faults < MaxFaults /\ faults' = faults + 1

\* ---- index.ts, the batch command: pool.initialize() ----
\* one iteration of the loop of initialize: launchBrowser, then createPage
InitializeStep ==
  /\ mainPc = "initialize"
  /\ Len(availablePages) < PoolSize
  /\ LET b == Fresh(LiveBrowsers)
         p == Fresh(LivePages)
     IN /\ browsers' = browsers \cup {b}
        /\ simCountPerBrowser' = (b :> 0) @@ simCountPerBrowser
        /\ availablePages' = Append(availablePages, p)
        /\ pageBrowser' = (p :> b) @@ pageBrowser
        /\ processes' = processes \cup {b}
  /\ UNCHANGED <<busyPages, isShuttingDown, orchVars, taskVars, fsVars,
                 mainVars, histVars>>
  /\ UNCHANGED faults
  /\ UNCHANGED <<countVars, runnerVars, genVars, frameWriter>>

\* an initialize called outside the try block of the command: its exception
\* ends the command without the finally block
InitializeFailNoFinally ==
  /\ mainPc = "initialize"
  /\ Len(availablePages) < PoolSize
  /\ mainPc' = "exit"
  /\ UNCHANGED <<poolVars, orchVars, taskVars, fsVars, earlyPc, histVars>>
  /\ UNCHANGED faults
  /\ UNCHANGED <<countVars, runnerVars, genVars, traceVars>>

\* launchBrowser rejects: initialize throws into the finally of the command
InitializeFail ==
  /\ mainPc = "initialize"
  /\ Len(availablePages) < PoolSize
  /\ mainPc' = "finally"
  /\ UNCHANGED <<poolVars, orchVars, taskVars, fsVars, earlyPc, histVars>>
  /\ UNCHANGED faults
  /\ UNCHANGED <<countVars, runnerVars, genVars, traceVars>>

\* launchBrowser resolves and the browser is pushed, then createPage rejects:
\* initialize throws and the pool keeps a browser that has no page
InitializeCreateFail ==
  /\ mainPc = "initialize"
  /\ Len(availablePages) < PoolSize
  /\ LET b == Fresh(LiveBrowsers)
     IN /\ browsers' = browsers \cup {b}
        /\ simCountPerBrowser' = (b :> 0) @@ simCountPerBrowser
        /\ processes' = processes \cup {b}
  /\ mainPc' = "finally"
  /\ UNCHANGED <<availablePages, busyPages, isShuttingDown, pageBrowser,
                 orchVars, taskVars, fsVars, earlyPc, histVars>>
  /\ UNCHANGED faults
  /\ UNCHANGED <<countVars, runnerVars, genVars, frameWriter>>

\* ---- orchestrator.ts: runBatch up to the queueing of the jobs ----
RunBatchBegin ==
  /\ mainPc = "initialize"
  /\ Len(availablePages) = PoolSize
  /\ completedCount' = 0
  /\ failedCount' = 0
  /\ status' = [j \in Jobs |-> "pending"]
  /\ retryCount' = [j \in Jobs |-> 0]
  /\ UNCHANGED backoffs
  /\ mainPc' = "jobs"
  /\ UNCHANGED <<poolVars, results, taskVars, fsVars, earlyPc, histVars>>
  /\ UNCHANGED faults
  /\ UNCHANGED <<countVars, runnerVars, genVars, traceVars>>

\* fs.mkdir(config.outputDir) rejects: runBatch throws before any job is queued
RunBatchMkdirFail ==
  /\ mainPc = "initialize"
  /\ Len(availablePages) = PoolSize
  /\ completedCount' = 0
  /\ failedCount' = 0
  /\ status' = [j \in Jobs |-> "pending"]
  /\ retryCount' = [j \in Jobs |-> 0]
  /\ UNCHANGED backoffs
  /\ mainPc' = "finally"
  /\ UNCHANGED <<poolVars, results, taskVars, fsVars, earlyPc, histVars>>
  /\ UNCHANGED faults
  /\ UNCHANGED <<countVars, runnerVars, genVars, traceVars>>

\* ---- orchestrator.ts: runWithRetry ----
\* a retry budget that is one attempt short
AttemptsRemainOffByOne(a) == a + 1 < MaxRetries

\* the test of the catch block: another attempt follows this one
AttemptsRemain(a) == a < MaxRetries

\* a delay that is the same after every attempt
BackoffDelayFlat(a) == BackoffBase

\* the delay of the timer the catch block awaits after attempt a
BackoffDelay(a) == BackoffBase * (a + 1)

\* the loop variable in the iteration of job j that the step belongs to: the
\* step that ends the backoff does attempt++ before anything else
ThisAttempt(j) == IF pc[j] = "backoff" THEN attempt[j] + 1 ELSE attempt[j]

\* the catch block of the retry loop, entered by job j whose statuses are st
Caught(j, st) ==
  /\ retryCount' = [retryCount EXCEPT ![j] = @ + 1]
  /\ IF AttemptsRemain(ThisAttempt(j))
       THEN /\ pc' = [pc EXCEPT ![j] = "backoff"]
            /\ backoffs' = [backoffs EXCEPT
                              ![j] = Append(@, BackoffDelay(ThisAttempt(j)))]
            /\ status' = st
            /\ UNCHANGED failedCount
       ELSE /\ pc' = [pc EXCEPT ![j] = "errdoc"]
            /\ UNCHANGED backoffs
            /\ status' = [st EXCEPT ![j] = "failed"]
            /\ failedCount' = failedCount + 1

\* acquirePage returns a page and runner.run is entered with it
Acquired(j) ==
  /\ availablePages' = PopRest(availablePages)
  /\ busyPages' = busyPages \cup {PopTop(availablePages)}
  /\ page' = [page EXCEPT ![j] = PopTop(availablePages)]
  /\ pc' = [pc EXCEPT ![j] = "run"]
  /\ acquireCalls' = [acquireCalls EXCEPT ![j] = @ + 1]
  /\ runCalls' = [runCalls EXCEPT ![j] = @ + 1]
  /\ lateAcquires' = lateAcquires + (IF isShuttingDown THEN 1 ELSE 0)
  /\ UNCHANGED <<browsers, simCountPerBrowser, isShuttingDown, pageBrowser,
                 retryCount, backoffs, failedCount, acquireFails, metadataDocs, recycles>>

\* a task that ends when acquirePage throws, without the catch block: the job
\* is neither retried nor marked failed
AcquireThrownDropped(j, st) ==
  /\ pc' = [pc EXCEPT ![j] = "done"]
  /\ status' = st
  /\ acquireFails' = [acquireFails EXCEPT ![j] = @ + 1]
  /\ UNCHANGED <<poolVars, page, acquireCalls, runCalls, retryCount, backoffs,
                 failedCount, countVars>>

\* acquirePage throws "Browser pool is shutting down": the catch block runs
AcquireThrown(j, st) ==
  /\ Caught(j, st)
  /\ acquireFails' = [acquireFails EXCEPT ![j] = @ + 1]
  /\ UNCHANGED <<poolVars, page, acquireCalls, runCalls, countVars>>

\* the top of one iteration of the retry loop: the call of acquirePage, which
\* returns, throws, or enters its polling wait
BeginAttempt(j, st) ==
  IF isShuttingDown
    THEN AcquireThrown(j, st)
    ELSE IF availablePages # <<>>
           THEN Acquired(j) /\ status' = st
           ELSE /\ pc' = [pc EXCEPT ![j] = "acquire"]
                /\ status' = st
                /\ UNCHANGED <<poolVars, retryCount, backoffs, failedCount, page,
                               acquireCalls, acquireFails, runCalls,
                               countVars>>

\* the queue starts the task of job j: runWithRetry up to its first await
StartJob(j) ==
  /\ mainPc = "jobs"
  /\ pc[j] = "queued"
  /\ \A k \in Jobs : k < j => pc[k] # "queued"
  /\ QueueHasRoom(Cardinality(Running))
  /\ BeginAttempt(j, [status EXCEPT ![j] = "running"])
  /\ UNCHANGED <<completedCount, results, attempt, runOk, fsVars, mainVars,
                 runSuccesses, releaseCalls, errorWriteFails>>
  /\ UNCHANGED faults
  /\ UNCHANGED <<runnerVars, genVars, traceVars>>

\* an acquirePage without the test of isShuttingDown behind its wait loop
AcquireWakeUnchecked(j) ==
  /\ pc[j] = "acquire"
  /\ availablePages # <<>>
  /\ Acquired(j)
  /\ UNCHANGED <<status, completedCount, results, attempt, runOk, fsVars,
                 mainPc, earlyPc, runSuccesses, releaseCalls, errorWriteFails>>
  /\ UNCHANGED faults
  /\ UNCHANGED <<runnerVars, genVars, traceVars>>

\* a wait that ends only when every page of the pool is available
AcquireWakeAllFree(j) ==
  /\ pc[j] = "acquire"
  /\ ~isShuttingDown
  /\ Len(availablePages) = PoolSize
  /\ Acquired(j)
  /\ UNCHANGED <<status, completedCount, results, attempt, runOk, fsVars,
                 mainPc, earlyPc, runSuccesses, releaseCalls, errorWriteFails>>
  /\ UNCHANGED faults
  /\ UNCHANGED <<runnerVars, genVars, traceVars>>

\* the polling wait of acquirePage ends: a page is available
AcquireWake(j) ==
  /\ pc[j] = "acquire"
  /\ ~isShuttingDown
  /\ availablePages # <<>>
  /\ Acquired(j)
  /\ UNCHANGED <<status, completedCount, results, attempt, runOk, fsVars,
                 mainPc, earlyPc, runSuccesses, releaseCalls, errorWriteFails>>
  /\ UNCHANGED faults
  /\ UNCHANGED <<runnerVars, genVars, traceVars>>

\* ---- simulation-runner.ts: run ----
\* the name saveFrame gives each frame index of a job
FrameNames == [i \in 0..TotalFrames |-> FrameFileName(i)]

\* the names saveFrame has written once the frame loop has done n iterations
FramesWritten(n) == {FrameNames[i] : i \in 0..(n - 1)}

\* a run that keeps the frame files it finds and writes the missing ones only
WriteFramesResume(old, n, run) ==
  [name \in DOMAIN old \cup FramesWritten(n) |->
     IF name \in DOMAIN old THEN old[name] ELSE run]

\* saveFrame in the first n iterations of the frame loop of one call of run:
\* writeFile replaces a file of the same name
WriteFrames(old, n, run) ==
  [name \in DOMAIN old \cup FramesWritten(n) |->
     IF name \in FramesWritten(n) THEN run ELSE old[name]]

\* ---- browser-pool.ts: releasePage up to its first await ----
\* busyPages.delete, the lease count, and the synchronous head of restartBrowser
ReleaseBegin(j) ==
  LET b == pageBrowser[page[j]]
      count == (IF b \in DOMAIN simCountPerBrowser
                  THEN simCountPerBrowser[b] ELSE 0) + 1
  IN /\ busyPages' = BusyAfterRelease(busyPages, page[j])
     /\ releaseCalls' = [releaseCalls EXCEPT ![j] = @ + 1]
     /\ IF count >= maxSims
          THEN /\ browsers' = browsers \ {b}
               /\ simCountPerBrowser' =
                    Restrict(simCountPerBrowser, DOMAIN simCountPerBrowser \ {b})
               /\ pc' = [pc EXCEPT ![j] = "relRestart"]
               /\ recycles' = recycles + 1
          ELSE /\ browsers' = browsers
               /\ simCountPerBrowser' =
                    (b :> count) @@ simCountPerBrowser
               /\ pc' = [pc EXCEPT ![j] = "relReset"]
               /\ UNCHANGED recycles

\* run goes through its whole frame loop and returns metadata: the job is
\* marked completed, and the finally block calls releasePage while the return
\* is pending
RunSucceed(j) ==
  /\ pc[j] = "run"
  /\ frameFiles' = [frameFiles EXCEPT ![j] = @ \cup FramesWritten(TotalFrames)]
  /\ frameWriter' = [frameWriter EXCEPT
                       ![j] = WriteFrames(@, TotalFrames, runCalls[j])]
  /\ status' = [status EXCEPT ![j] = "completed"]
  /\ completedCount' = completedCount + 1
  /\ runSuccesses' = [runSuccesses EXCEPT ![j] = @ + 1]
  /\ metadataDocs' = [metadataDocs EXCEPT ![j] = @ + 1]
  /\ runOk' = [runOk EXCEPT ![j] = TRUE]
  /\ ReleaseBegin(j)
  /\ UNCHANGED <<availablePages, isShuttingDown, pageBrowser, retryCount, backoffs,
                 failedCount, results, attempt, page, errorDocs, indexDocs,
                 mainVars, runCalls, acquireCalls, acquireFails,
                 errorWriteFails>>
  /\ UNCHANGED faults
  /\ UNCHANGED <<runnerVars, genVars, processes, lateAcquires>>

\* run throws and the page is not released: the release sits on the success
\* path only instead of in a finally block
RunFailNoRelease(j) ==
  /\ pc[j] = "run"
  /\ Caught(j, status)
  /\ page' = [page EXCEPT ![j] = NoPage]
  /\ runOk' = [runOk EXCEPT ![j] = FALSE]
  /\ \E n \in 0..TotalFrames :
       /\ frameFiles' = [frameFiles EXCEPT ![j] = @ \cup FramesWritten(n)]
       /\ frameWriter' = [frameWriter EXCEPT
                            ![j] = WriteFrames(@, n, runCalls[j])]
  /\ UNCHANGED <<poolVars, completedCount, results, attempt, errorDocs,
                 indexDocs, mainVars, histVars>>
  /\ Fault
  /\ UNCHANGED <<metadataDocs, recycles, lateAcquires, runnerVars, genVars, processes>>

\* a remote call, the readiness wait or a write of run rejects after n
\* iterations of the frame loop: run throws, and the finally block calls
\* releasePage while the exception is pending
RunFail(j) ==
  /\ pc[j] = "run"
  /\ \E n \in 0..TotalFrames :
       /\ frameFiles' = [frameFiles EXCEPT ![j] = @ \cup FramesWritten(n)]
       /\ frameWriter' = [frameWriter EXCEPT
                            ![j] = WriteFrames(@, n, runCalls[j])]
  /\ runOk' = [runOk EXCEPT ![j] = FALSE]
  /\ ReleaseBegin(j)
  /\ UNCHANGED <<availablePages, isShuttingDown, pageBrowser, orchVars,
                 attempt, page, errorDocs, indexDocs, mainVars,
                 runCalls, runSuccesses, acquireCalls, acquireFails,
                 errorWriteFails>>
  /\ Fault
  /\ UNCHANGED <<metadataDocs, lateAcquires>>
  /\ UNCHANGED <<runnerVars, genVars, processes>>

\* ---- orchestrator.ts: what follows the await of releasePage ----
\* threw: releasePage rejected. The pending return completes only when the
\* run returned and releasePage did not throw; otherwise the catch block runs
ReleaseEnd(j, threw) ==
  /\ IF runOk[j] /\ ~threw
       THEN /\ pc' = [pc EXCEPT ![j] = "done"]
            /\ results' = results \cup {j}
            /\ UNCHANGED <<status, retryCount, backoffs, failedCount>>
       ELSE /\ Caught(j, status)
            /\ UNCHANGED results
  /\ page' = [page EXCEPT ![j] = NoPage]
  /\ runOk' = [runOk EXCEPT ![j] = FALSE]
  /\ UNCHANGED <<completedCount, attempt, fsVars, mainVars, histVars,
                 busyPages, isShuttingDown>>

\* ---- browser-pool.ts: releasePage, the reset branch ----
\* page.goto("about:blank") resolves: the page goes back to the pool
ResetOk(j) ==
  /\ pc[j] = "relReset"
  /\ availablePages' = Append(availablePages, page[j])
  /\ ReleaseEnd(j, FALSE)
  /\ UNCHANGED <<browsers, simCountPerBrowser, pageBrowser>>
  /\ UNCHANGED faults
  /\ UNCHANGED <<countVars, runnerVars, genVars, traceVars>>

\* page.goto rejects and createPage on the same browser resolves
ResetFailNewPage(j) ==
  /\ pc[j] = "relReset"
  /\ LET newPage == Fresh(LivePages)
     IN /\ availablePages' = ResetFailedPush(availablePages, page[j], newPage)
        /\ ReleaseEnd(j, FALSE)
        /\ pageBrowser' = Restrict((newPage :> pageBrowser[page[j]]) @@ pageBrowser,
                                   LivePages')
  /\ UNCHANGED <<browsers, simCountPerBrowser>>
  /\ Fault
  /\ UNCHANGED <<countVars, runnerVars, genVars, traceVars>>

\* page.goto rejects and createPage rejects too: releasePage throws
ResetFailThrow(j) ==
  /\ pc[j] = "relReset"
  /\ UNCHANGED <<browsers, simCountPerBrowser, availablePages>>
  /\ ReleaseEnd(j, TRUE)
  /\ pageBrowser' = Restrict(pageBrowser, LivePages')
  /\ Fault
  /\ UNCHANGED <<countVars, runnerVars, genVars, traceVars>>

\* ---- browser-pool.ts: restartBrowser after its first await ----
\* the old page and browser are closed, launchBrowser and createPage resolve
RestartOk(j) ==
  /\ pc[j] = "relRestart"
  /\ LET newBrowser == Fresh(LiveBrowsers)
         newPage == Fresh(LivePages)
     IN /\ browsers' = browsers \cup {newBrowser}
        /\ simCountPerBrowser' = (newBrowser :> 0) @@ simCountPerBrowser
        /\ availablePages' = Append(availablePages, newPage)
        /\ ReleaseEnd(j, FALSE)
        /\ pageBrowser' = Restrict((newPage :> newBrowser) @@ pageBrowser,
                                   LivePages')
        /\ processes' = (processes \ {pageBrowser[page[j]]}) \cup {newBrowser}
  /\ UNCHANGED faults
  /\ UNCHANGED <<countVars, runnerVars, genVars, frameWriter>>

\* launchBrowser rejects: releasePage throws, nothing replaces the browser
RestartLaunchThrow(j) ==
  /\ pc[j] = "relRestart"
  /\ UNCHANGED <<browsers, simCountPerBrowser, availablePages>>
  /\ ReleaseEnd(j, TRUE)
  /\ pageBrowser' = Restrict(pageBrowser, LivePages')
  /\ processes' = processes \ {pageBrowser[page[j]]}
  /\ Fault
  /\ UNCHANGED <<countVars, runnerVars, genVars, frameWriter>>

\* launchBrowser resolves and createPage rejects: the new browser has no page
RestartCreateThrow(j) ==
  /\ pc[j] = "relRestart"
  /\ LET newBrowser == Fresh(LiveBrowsers)
     IN /\ browsers' = browsers \cup {newBrowser}
        /\ simCountPerBrowser' = (newBrowser :> 0) @@ simCountPerBrowser
        /\ processes' = (processes \ {pageBrowser[page[j]]}) \cup {newBrowser}
  /\ UNCHANGED availablePages
  /\ ReleaseEnd(j, TRUE)
  /\ pageBrowser' = Restrict(pageBrowser, LivePages')
  /\ Fault
  /\ UNCHANGED <<countVars, runnerVars, genVars, frameWriter>>

\* ---- orchestrator.ts: the retry loop after a caught failure ----
\* the backoff timer fires: attempt++ and the next iteration begins
Retry(j) ==
  /\ pc[j] = "backoff"
  /\ attempt' = [attempt EXCEPT ![j] = @ + 1]
  /\ BeginAttempt(j, status)
  /\ UNCHANGED <<completedCount, results, runOk, fsVars, mainVars,
                 runSuccesses, releaseCalls, errorWriteFails>>
  /\ UNCHANGED faults
  /\ UNCHANGED <<runnerVars, genVars, traceVars>>

\* error.json is written; the loop ends and runWithRetry returns null
WriteErrorOk(j) ==
  /\ pc[j] = "errdoc"
  /\ errorDocs' = [errorDocs EXCEPT ![j] = Append(@, retryCount[j])]
  /\ pc' = [pc EXCEPT ![j] = "done"]
  /\ UNCHANGED <<poolVars, orchVars, attempt, page, runOk, frameFiles,
                 indexDocs, mainVars, histVars>>
  /\ UNCHANGED faults
  /\ UNCHANGED <<countVars, runnerVars, genVars, traceVars>>

\* mkdir or writeFile of error.json rejects, which the code ignores
WriteErrorFail(j) ==
  /\ pc[j] = "errdoc"
  /\ pc' = [pc EXCEPT ![j] = "done"]
  /\ errorWriteFails' = [errorWriteFails EXCEPT ![j] = @ + 1]
  /\ UNCHANGED <<poolVars, orchVars, attempt, page, runOk, fsVars,
                 mainVars, runCalls, runSuccesses, acquireCalls, acquireFails,
                 releaseCalls>>
  /\ UNCHANGED faults
  /\ UNCHANGED <<countVars, runnerVars, genVars, traceVars>>

\* ---- orchestrator.ts: runBatch after Promise.all ----
AllResolved == \A j \in Jobs : pc[j] = "done"

IndexDoc == [total_simulations |-> NumJobs,
             completed |-> completedCount,
             failed |-> failedCount,
             simulations |-> results]

WriteIndexOk ==
  /\ mainPc = "jobs"
  /\ AllResolved
  /\ indexDocs' = Append(indexDocs, IndexDoc)
  /\ mainPc' = "finally"
  /\ UNCHANGED <<poolVars, orchVars, taskVars, frameFiles, errorDocs,
                 earlyPc, histVars>>
  /\ UNCHANGED faults
  /\ UNCHANGED <<countVars, runnerVars, genVars, traceVars>>

\* writeFile of index.json rejects: runBatch throws
WriteIndexFail ==
  /\ mainPc = "jobs"
  /\ AllResolved
  /\ mainPc' = "finally"
  /\ UNCHANGED <<poolVars, orchVars, taskVars, fsVars, earlyPc, histVars>>
  /\ UNCHANGED faults
  /\ UNCHANGED <<countVars, runnerVars, genVars, traceVars>>

\* ---- browser-pool.ts: shutdown ----
\* closing every browser and clearing the collections
CloseAll ==
  /\ browsers' = {}
  /\ availablePages' = <<>>
  /\ busyPages' = {}
  /\ pageBrowser' = Restrict(pageBrowser, HeldPages)
  /\ processes' = processes \ browsers
  /\ UNCHANGED <<simCountPerBrowser, isShuttingDown>>

\* the finally block of the batch command calls shutdown
ShutdownBegin ==
  /\ mainPc = "finally"
  /\ isShuttingDown' = TRUE
  /\ mainPc' = "draining"
  /\ UNCHANGED <<browsers, availablePages, busyPages, simCountPerBrowser,
                 pageBrowser, orchVars, taskVars, fsVars, earlyPc,
                 histVars>>
  /\ UNCHANGED faults
  /\ UNCHANGED <<countVars, runnerVars, genVars, traceVars>>

\* no page is busy: the wait loop of shutdown ends
ShutdownFinish ==
  /\ mainPc = "draining"
  /\ busyPages = {}
  /\ CloseAll
  /\ mainPc' = "exit"
  /\ UNCHANGED <<orchVars, taskVars, fsVars, earlyPc, histVars>>
  /\ UNCHANGED faults
  /\ UNCHANGED <<countVars, runnerVars, genVars, frameWriter>>

\* ---- browser-pool.ts: shutdown called while the batch is running ----
\* a caller other than the batch command's finally block calls shutdown
EarlyShutdownBegin ==
  /\ mainPc = "jobs"
  /\ earlyPc = "idle"
  /\ isShuttingDown' = TRUE
  /\ earlyPc' = "draining"
  /\ Fault
  /\ UNCHANGED <<browsers, availablePages, busyPages, simCountPerBrowser,
                 pageBrowser, orchVars, taskVars, fsVars, mainPc,
                 histVars>>
  /\ UNCHANGED <<countVars, runnerVars, genVars, traceVars>>

EarlyShutdownFinish ==
  /\ earlyPc = "draining"
  /\ busyPages = {}
  /\ CloseAll
  /\ earlyPc' = "closed"
  /\ UNCHANGED <<orchVars, taskVars, fsVars, mainPc, faults, histVars>>
  /\ UNCHANGED <<countVars, runnerVars, genVars, frameWriter>>

\* the 30 s of the wait loop elapse while pages are still busy
EarlyShutdownTimeout ==
  /\ earlyPc = "draining"
  /\ busyPages # {}
  /\ CloseAll
  /\ earlyPc' = "closed"
  /\ UNCHANGED <<orchVars, taskVars, fsVars, mainPc, faults, histVars>>
  /\ UNCHANGED <<countVars, runnerVars, genVars, frameWriter>>

\* the polling wait of acquirePage ends because the pool is shutting down
AcquireThrow(j) ==
  /\ pc[j] = "acquire"
  /\ isShuttingDown
  /\ AcquireThrown(j, status)
  /\ UNCHANGED <<completedCount, results, attempt, runOk, fsVars, mainVars,
                 faults, runSuccesses, releaseCalls, errorWriteFails>>
  /\ UNCHANGED <<runnerVars, genVars, traceVars>>

\* the steps of the queue task of job j
JobStep(j) ==
  \/ StartJob(j)
  \/ AcquireWake(j)
  \/ RunSucceed(j)
  \/ RunFail(j)
  \/ ResetOk(j)
  \/ ResetFailNewPage(j)
  \/ ResetFailThrow(j)
  \/ RestartOk(j)
  \/ RestartLaunchThrow(j)
  \/ RestartCreateThrow(j)
  \/ Retry(j)
  \/ WriteErrorOk(j)
  \/ WriteErrorFail(j)

\* the steps of the batch command itself
MainStep ==
  \/ InitializeStep
  \/ InitializeFail
  \/ InitializeCreateFail
  \/ RunBatchBegin
  \/ RunBatchMkdirFail
  \/ WriteIndexOk
  \/ WriteIndexFail
  \/ ShutdownBegin
  \/ ShutdownFinish

Next == MainStep \/ \E j \in Jobs : JobStep(j)

NextShutdown ==
  \/ Next
  \/ EarlyShutdownBegin
  \/ EarlyShutdownFinish
  \/ EarlyShutdownTimeout
  \/ \E j \in Jobs : AcquireThrow(j)

\* the batch command alone
Spec == Init /\ [][Next]_vars

\* the batch command, with shutdown callable at any time while jobs run
SpecShutdown == Init /\ [][NextShutdown]_vars

\* the batch command under the event loop: a continuation that can run does
FairSpec ==
  /\ Init /\ [][Next]_vars
  /\ WF_vars(MainStep)
  /\ \A j \in Jobs : WF_vars(JobStep(j))

\* ---- simulation-runner.ts: one call of run, await by await ----
\* intervention.simulationTime before the run has recorded it
NoTime == -1
\* the result of find when no intervention is scheduled at the frame
NoIntervention == 0

\* config.interventions: the k-th intervention of the list is scheduled at
\* frame list[k]; its position k identifies it
InterventionLists ==
  UNION {[1..n -> 0..RunnerFrames] : n \in 0..MaxInterventions}

Given(list) == [k \in DOMAIN list |-> [id |-> k, frame |-> list[k]]]

\* an insertion that puts an intervention before those of its own frame
RECURSIVE InsertByFrameBeforeEqual(_, _)
InsertByFrameBeforeEqual(sorted, x) ==
  IF sorted = <<>> THEN <<x>>
  ELSE IF sorted[Len(sorted)].frame < x.frame
         THEN Append(sorted, x)
         ELSE Append(InsertByFrameBeforeEqual(SubSeq(sorted, 1, Len(sorted) - 1), x),
                     sorted[Len(sorted)])

\* Array.prototype.sort with (a, b) => a.frame - b.frame: the sort is stable,
\* an element goes behind those that compare less than or equal to it
RECURSIVE InsertByFrame(_, _)
InsertByFrame(sorted, x) ==
  IF sorted = <<>> THEN <<x>>
  ELSE IF sorted[Len(sorted)].frame <= x.frame
         THEN Append(sorted, x)
         ELSE Append(InsertByFrame(SubSeq(sorted, 1, Len(sorted) - 1), x),
                     sorted[Len(sorted)])

\* the interventions left in the order of the job's list
SortByFrameNone(list) == list

RECURSIVE SortByFrame(_)
SortByFrame(list) ==
  IF list = <<>> THEN <<>>
  ELSE InsertByFrame(SortByFrame(SubSeq(list, 1, Len(list) - 1)), list[Len(list)])

\* interventions.find((i) => i.frame === frame): the first match of the
\* sorted list
FindAtFrame(ivs, f) ==
  IF \E k \in DOMAIN ivs : ivs[k].frame = f
    THEN ivs[CHOOSE k \in DOMAIN ivs :
               /\ ivs[k].frame = f
               /\ \A m \in 1..(k - 1) : ivs[m].frame # f].id
    ELSE NoIntervention

\* an annotation that numbers the frames from 1
AnnotationOneBased(f, t, iv) ==
  [frameIndex |-> f + 1, simulationTime |-> t, intervention |-> iv]

\* the FrameAnnotation pushed for frame f
Annotation(f, t, iv) ==
  [frameIndex |-> f, simulationTime |-> t, intervention |-> iv]

\* a call that resolved, or the rejection that ended the run
Call(op, arg) == [op |-> op, arg |-> arg]

\* an inner loop that takes the next intervention whatever its frame
LoopHeadAnyFrame(ivs, f, idx) ==
  IF f < rcfg.totalFrames
    THEN IF idx < Len(ivs) THEN "brush" ELSE "step"
    ELSE "collect"

\* the head of the frame loop and of its inner while loop, which run
\* synchronously: the next await with the loop variables f and idx
LoopHead(ivs, f, idx) ==
  IF f < rcfg.totalFrames
    THEN IF idx < Len(ivs) /\ ivs[idx + 1].frame = f THEN "brush" ELSE "step"
    ELSE "collect"

\* what follows the readiness wait, the seed and the options
AfterReady == IF rcfg.randomSeed THEN "seed"
              ELSE IF rcfg.options THEN "options" ELSE "reset"
AfterSeed == IF rcfg.options THEN "options" ELSE "reset"

\* a navigation that keeps the document the page already shows
NavigateKeep(d) == d

\* page.goto(url) with the URL of the preset: the page drops its document,
\* whatever it was, and loads the preset with the preset's own options
Navigate(d) == "preset"

\* run is called with a config: it stands at its first await, fs.mkdir
InitRunner ==
  /\ InitBatch
  /\ GeneratorIdle
  /\ rcfg \in [interventions : InterventionLists, randomSeed : BOOLEAN,
               options : BOOLEAN, totalFrames : 0..RunnerFrames]
  /\ rpc = "mkdir"
  /\ frame = 0
  /\ interventions = <<>>
  /\ interventionIndex = 0
  /\ frameAnnotations = <<>>
  /\ simTime = [k \in DOMAIN rcfg.interventions |-> NoTime]
  /\ solverSteps = 0
  /\ doc = "blank"
  /\ rlog = <<>>

RunMkdir ==
  /\ rpc = "mkdir"
  /\ rlog' = Append(rlog, Call("mkdir", 0))
  /\ rpc' = "goto"
  /\ UNCHANGED <<batchVars, genVars, doc, rcfg, frame, interventions, interventionIndex,
                 frameAnnotations, simTime, solverSteps>>

\* page.goto resolves at domcontentloaded: the page begins to load the preset
RunGoto ==
  /\ rpc = "goto"
  /\ rlog' = Append(rlog, Call("goto", 0))
  /\ rpc' = "ready"
  /\ doc' = Navigate(doc)
  /\ UNCHANGED <<batchVars, genVars, rcfg, frame, interventions, interventionIndex,
                 frameAnnotations, simTime, solverSteps>>

\* waitForFunction resolves: the page has run VisualPDE() to its end, which
\* initialised the preset of the URL and then set VPDE_READY
RunReady ==
  /\ rpc = "ready"
  /\ rlog' = rlog \o <<Call("pageInit", 0), Call("ready", 0)>>
  /\ rpc' = AfterReady
  /\ UNCHANGED <<batchVars, genVars, doc, rcfg, frame, interventions, interventionIndex,
                 frameAnnotations, simTime, solverSteps>>

\* window.VPDE_SEED = seed
RunSeed ==
  /\ rpc = "seed"
  /\ rlog' = Append(rlog, Call("setSeed", 0))
  /\ rpc' = AfterSeed
  /\ UNCHANGED <<batchVars, genVars, doc, rcfg, frame, interventions, interventionIndex,
                 frameAnnotations, simTime, solverSteps>>

\* overrides applied behind the recomputation of the derived parameters
RunOptionsUpdateFirst ==
  /\ rpc = "options"
  /\ rlog' = rlog \o <<Call("updateProblem", 0), Call("setOption", 0)>>
  /\ doc' = "overridden"
  /\ rpc' = "reset"
  /\ UNCHANGED <<batchVars, genVars, rcfg, frame, interventions, interventionIndex,
                 frameAnnotations, simTime, solverSteps>>

\* the option overrides: setOption for each key, then updateProblem
RunOptions ==
  /\ rpc = "options"
  /\ rlog' = rlog \o <<Call("setOption", 0), Call("updateProblem", 0)>>
  /\ doc' = "overridden"
  /\ rpc' = "reset"
  /\ UNCHANGED <<batchVars, genVars, rcfg, frame, interventions, interventionIndex,
                 frameAnnotations, simTime, solverSteps>>

\* VPDE.reset(), then the sort of the interventions and the loop variables
RunReset ==
  /\ rpc = "reset"
  /\ rlog' = Append(rlog, Call("reset", 0))
  /\ solverSteps' = 0
  /\ interventions' = SortByFrame(Given(rcfg.interventions))
  /\ interventionIndex' = 0
  /\ frameAnnotations' = <<>>
  /\ frame' = 0
  /\ rpc' = LoopHead(interventions', 0, 0)
  /\ UNCHANGED <<batchVars, genVars, doc, rcfg, simTime>>

\* applyIntervention: VPDE.applyBrush
RunBrush ==
  /\ rpc = "brush"
  /\ rlog' = Append(rlog, Call("applyBrush", interventions[interventionIndex + 1].id))
  /\ rpc' = "brushTime"
  /\ UNCHANGED <<batchVars, genVars, doc, rcfg, frame, interventions, interventionIndex,
                 frameAnnotations, simTime, solverSteps>>

\* the time of an intervention read only after the frame's steps
RunBrushTimeAfterStep ==
  /\ rpc = "brushTime"
  /\ simTime' = [simTime EXCEPT ![interventions[interventionIndex + 1].id] =
                                   solverSteps + TimestepsPerFrame]
  /\ interventionIndex' = interventionIndex + 1
  /\ rlog' = Append(rlog, Call("getTime", frame))
  /\ rpc' = LoopHead(interventions, frame, interventionIndex + 1)
  /\ UNCHANGED <<batchVars, genVars, doc, rcfg, frame, interventions, frameAnnotations,
                 solverSteps>>

\* VPDE.getTime() after the brush: intervention.simulationTime is recorded
RunBrushTime ==
  /\ rpc = "brushTime"
  /\ simTime' = [simTime EXCEPT ![interventions[interventionIndex + 1].id] =
                                   solverSteps]
  /\ interventionIndex' = interventionIndex + 1
  /\ rlog' = Append(rlog, Call("getTime", frame))
  /\ rpc' = LoopHead(interventions, frame, interventionIndex + 1)
  /\ UNCHANGED <<batchVars, genVars, doc, rcfg, frame, interventions, frameAnnotations,
                 solverSteps>>

\* a single timestep per frame, VPDE.step() in place of VPDE.stepN(n)
RunStepOnce ==
  /\ rpc = "step"
  /\ rlog' = rlog \o <<Call("stepN", frame), Call("render", frame)>>
  /\ solverSteps' = solverSteps + 1
  /\ rpc' = "capture"
  /\ UNCHANGED <<batchVars, genVars, doc, rcfg, frame, interventions, interventionIndex,
                 frameAnnotations, simTime>>

\* VPDE.stepN(timestepsPerFrame) and VPDE.render() in one evaluate
RunStep ==
  /\ rpc = "step"
  /\ rlog' = rlog \o <<Call("stepN", frame), Call("render", frame)>>
  /\ solverSteps' = solverSteps + TimestepsPerFrame
  /\ rpc' = "capture"
  /\ UNCHANGED <<batchVars, genVars, doc, rcfg, frame, interventions, interventionIndex,
                 frameAnnotations, simTime>>

\* VPDE.captureFrame()
RunCapture ==
  /\ rpc = "capture"
  /\ rlog' = Append(rlog, Call("captureFrame", frame))
  /\ rpc' = "save"
  /\ UNCHANGED <<batchVars, genVars, doc, rcfg, frame, interventions, interventionIndex,
                 frameAnnotations, simTime, solverSteps>>

\* saveFrame: the frame's file is written
RunSave ==
  /\ rpc = "save"
  /\ rlog' = Append(rlog, Call("saveFrame", frame))
  /\ rpc' = "frameTime"
  /\ UNCHANGED <<batchVars, genVars, doc, rcfg, frame, interventions, interventionIndex,
                 frameAnnotations, simTime, solverSteps>>

\* VPDE.getTime() after the save: the annotation is pushed, frame++
RunFrameTime ==
  /\ rpc = "frameTime"
  /\ frameAnnotations' =
       Append(frameAnnotations,
              Annotation(frame, solverSteps, FindAtFrame(interventions, frame)))
  /\ frame' = frame + 1
  /\ rlog' = Append(rlog, Call("getTime", frame))
  /\ rpc' = LoopHead(interventions, frame + 1, interventionIndex)
  /\ UNCHANGED <<batchVars, genVars, doc, rcfg, interventions, interventionIndex, simTime,
                 solverSteps>>

\* collectMetadata: getOptions and getTime
RunCollect ==
  /\ rpc = "collect"
  /\ rlog' = rlog \o <<Call("getOptions", 0), Call("getTime", 0)>>
  /\ rpc' = "writeMeta"
  /\ UNCHANGED <<batchVars, genVars, doc, rcfg, frame, interventions, interventionIndex,
                 frameAnnotations, simTime, solverSteps>>

\* metadata.json is written and run returns the metadata
RunWriteMeta ==
  /\ rpc = "writeMeta"
  /\ rlog' = Append(rlog, Call("writeMetadata", 0))
  /\ rpc' = "returned"
  /\ UNCHANGED <<batchVars, genVars, doc, rcfg, frame, interventions, interventionIndex,
                 frameAnnotations, simTime, solverSteps>>

\* the rejection is caught inside the runner and the call is made again
RunThrowRetry ==
  /\ rpc \notin {"idle", "returned", "thrown"}
  /\ Len(SelectSeq(rlog, LAMBDA c : c.op = "rejected")) < 1
  /\ rlog' = Append(rlog, Call("rejected", 0))
  /\ UNCHANGED <<batchVars, genVars, doc, rcfg, rpc, frame, interventions, interventionIndex,
                 frameAnnotations, simTime, solverSteps>>

\* the awaited call rejects: no await of run is inside a try block, so the
\* rejection leaves run
RunThrow ==
  /\ rpc \notin {"idle", "returned", "thrown"}
  /\ rpc' = "thrown"
  /\ rlog' = Append(rlog, Call("rejected", 0))
  /\ UNCHANGED <<batchVars, genVars, doc, rcfg, frame, interventions, interventionIndex,
                 frameAnnotations, simTime, solverSteps>>

NextRunner ==
  \/ RunMkdir
  \/ RunGoto
  \/ RunReady
  \/ RunSeed
  \/ RunOptions
  \/ RunReset
  \/ RunBrush
  \/ RunBrushTime
  \/ RunStep
  \/ RunCapture
  \/ RunSave
  \/ RunFrameTime
  \/ RunCollect
  \/ RunWriteMeta
  \/ RunThrow

\* one call of SimulationRunner.run on a page of its own
SpecRunner == InitRunner /\ [][NextRunner]_vars

\* ======================= properties =======================
Resolved(j) == pc[j] = "done"

\* the attempts job j has begun: every one called acquirePage to its end
AttemptsMade(j) == acquireCalls[j] + acquireFails[j]

\* the index written with exactly PadWidth decimal digits, leading zeros kept
PaddedIndex(i) == [k \in 1..PadWidth |-> (i \div (10 ^ (PadWidth - k))) % 10]

\* the names of the indices 0..totalFrames-1
ExpectedFrameNames == {PaddedIndex(i) : i \in 0..(TotalFrames - 1)}

\* saveFrame names every index up to MaxFrameIndex by its padded form
FrameNamesPadded == \A i \in 0..MaxFrameIndex : FrameFileName(i) = PaddedIndex(i)

\* C1: in every reachable state the number of busy pages is at most poolSize
C1_BusyAtMostPoolSize == Cardinality(busyPages) <= PoolSize

\* every page is busy, one of them a page that replaced a released one
C1_Witness ==
  /\ Cardinality(busyPages) = PoolSize
  /\ \E p \in busyPages : p > PoolSize
  /\ \E k \in Jobs : releaseCalls[k] > 0

\* C2: a page is never leased to two jobs at once: two jobs inside their runs
\* hold different pages, a leased page is busy and not available, and no
\* page is both available and busy
C2_NoDoubleLease ==
  /\ \A j, k \in Jobs :
       (j # k /\ pc[j] = "run" /\ pc[k] = "run") => page[j] # page[k]
  /\ \A j \in Jobs :
       pc[j] = "run" => /\ page[j] \in busyPages
                        /\ page[j] \notin Range(availablePages)
  /\ busyPages \cap Range(availablePages) = {}

\* job j runs on a page while job k, which has held a page before, waits for one
C2_Witness ==
  \E j, k \in Jobs :
    /\ j # k
    /\ pc[j] = "run" /\ page[j] \in busyPages
    /\ pc[k] = "acquire" /\ acquireCalls[k] > 0
    /\ availablePages = <<>>

\* C3: per job, releasePage has been called once for every acquirePage that
\* returned a page, the page of a running attempt excepted; an acquirePage
\* that threw adds no release, and releases never exceed successful acquires
C3_ReleaseOncePerAcquire ==
  \A j \in Jobs :
    /\ releaseCalls[j] <= acquireCalls[j]
    /\ releaseCalls[j] = IF pc[j] = "run" THEN acquireCalls[j] - 1
                                          ELSE acquireCalls[j]
    /\ (pc[j] = "run") = (page[j] # NoPage /\ pc[j] \notin {"relReset", "relRestart"})

\* a resolved job with a released page from a failed run and an attempt
\* whose acquirePage threw
C3_Witness ==
  \E j \in Jobs :
    /\ Resolved(j)
    /\ acquireFails[j] > 0
    /\ acquireCalls[j] > 0
    /\ releaseCalls[j] = acquireCalls[j]
    /\ runSuccesses[j] = 0

\* C4: at most `concurrency` jobs are inside their retry loop at any time
C4_AtMostConcurrencyRunning == Cardinality(Running) <= Concurrency

\* the queue is full, one of its jobs waits in backoff, and a job is queued
C4_Witness ==
  /\ Cardinality(Running) = Concurrency
  /\ \E j \in Jobs : pc[j] = "backoff"
  /\ \E k \in Jobs : pc[k] = "queued"

\* C5: run is invoked at most maxRetries + 1 times per job, and never again
\* after an invocation that returned metadata
C5_RunStopsAfterSuccess ==
  \A j \in Jobs :
    /\ runCalls[j] <= MaxRetries + 1
    /\ pc[j] = "run" => runSuccesses[j] = 0

\* C6 as stated: a job whose every attempt failed is failed after
\* maxRetries + 1 attempts with exactly one error document, of that retryCount
C6_ExactlyOneErrorDoc ==
  \A j \in Jobs :
    (Resolved(j) /\ runSuccesses[j] = 0) =>
      /\ status[j] = "failed"
      /\ AttemptsMade(j) = MaxRetries + 1
      /\ errorDocs[j] = <<MaxRetries + 1>>

\* C6 amended: a job whose every attempt failed is failed after
\* maxRetries + 1 attempts; error.json was written once with
\* retryCount = maxRetries + 1, or its one write rejected and none exists
C6_FailedAfterAllAttempts ==
  \A j \in Jobs :
    (Resolved(j) /\ runSuccesses[j] = 0) =>
      /\ status[j] = "failed"
      /\ AttemptsMade(j) = MaxRetries + 1
      /\ retryCount[j] = MaxRetries + 1
      /\ Len(errorDocs[j]) + errorWriteFails[j] = 1
      /\ \A i \in DOMAIN errorDocs[j] : errorDocs[j][i] = MaxRetries + 1

\* a job all of whose runs threw is resolved with its error document
C6_Witness ==
  \E j \in Jobs :
    /\ Resolved(j)
    /\ runSuccesses[j] = 0
    /\ runCalls[j] = MaxRetries + 1
    /\ status[j] = "failed"
    /\ errorDocs[j] = <<MaxRetries + 1>>

\* C7: a job one of whose runs returned metadata ends completed, with no
\* error document
C7_SuccessMeansCompleted ==
  \A j \in Jobs :
    (Resolved(j) /\ runSuccesses[j] > 0) =>
      /\ status[j] = "completed"
      /\ errorDocs[j] = <<>>

\* C8: once the jobs are queued, every job eventually resolves as completed
\* or failed and runBatch gets past Promise.all
C8_BatchTerminates ==
  (mainPc = "jobs") ~>
    (/\ \A j \in Jobs : Resolved(j) /\ status[j] \in {"completed", "failed"}
     /\ mainPc # "jobs")

\* C9: index.json is written at most once, after every job has resolved, and
\* its counts are those of the job statuses, which add up to the batch
C9_IndexMatchesStatuses ==
  /\ Len(indexDocs) <= 1
  /\ indexDocs # <<>> =>
       /\ \A j \in Jobs : Resolved(j) /\ status[j] \in {"completed", "failed"}
       /\ indexDocs[1].completed =
            Cardinality({j \in Jobs : status[j] = "completed"})
       /\ indexDocs[1].failed =
            Cardinality({j \in Jobs : status[j] = "failed"})
       /\ indexDocs[1].completed + indexDocs[1].failed = NumJobs

\* C10: the frames directory of a job recorded as completed holds exactly
\* totalFrames files, those of the indices 0..totalFrames-1, and the name
\* saveFrame gives an index is the index zero-padded to 6 digits
C10_CompletedJobFrames ==
  /\ FrameNamesPadded
  /\ \A j \in Jobs :
       status[j] = "completed" =>
         /\ frameFiles[j] = ExpectedFrameNames
         /\ Cardinality(frameFiles[j]) = TotalFrames

\* a job is completed by an attempt that followed a failed attempt which
\* had already written frames
C10_Witness ==
  \E j \in Jobs :
    /\ status[j] = "completed"
    /\ retryCount[j] > 0
    /\ runCalls[j] > 1
    /\ Resolved(j)
    /\ Cardinality(frameFiles[j]) = TotalFrames

\* ---- one run of the runner ----
\* the positions of rlog at which op was called
CallsOf(op) == {i \in DOMAIN rlog : rlog[i].op = op}

\* the frame the job's list schedules intervention id at
ScheduledFrame(id) == rcfg.interventions[id]

\* the interventions of the list whose frame the loop reaches
Reachable == {id \in DOMAIN rcfg.interventions : ScheduledFrame(id) < rcfg.totalFrames}

\* op was called with arg before position i of rlog
Before(op, arg, i) == \E k \in 1..(i - 1) : rlog[k] = Call(op, arg)

\* C11: the brushes are applied in non-decreasing frame order whatever the
\* order of the list; the brush of an intervention of frame f comes after
\* the capture and save of frame f-1 and before the step, render and capture
\* of frame f; a run that returned applied each intervention whose frame is
\* below totalFrames once and no other
C11_InterventionsInFrameOrder ==
  /\ \A i, k \in CallsOf("applyBrush") :
       i < k => ScheduledFrame(rlog[i].arg) <= ScheduledFrame(rlog[k].arg)
  /\ \A i \in CallsOf("applyBrush") :
       LET f == ScheduledFrame(rlog[i].arg)
       IN /\ f > 0 => Before("captureFrame", f - 1, i) /\ Before("saveFrame", f - 1, i)
          /\ ~Before("stepN", f, i)
          /\ ~Before("render", f, i)
          /\ ~Before("captureFrame", f, i)
  /\ \A i \in CallsOf("stepN") :
       \A id \in Reachable :
         ScheduledFrame(id) = rlog[i].arg => Before("applyBrush", id, i)
  /\ rpc = "returned" =>
       /\ {rlog[i].arg : i \in CallsOf("applyBrush")} = Reachable
       /\ Cardinality(CallsOf("applyBrush")) = Cardinality(Reachable)

\* a run returned after applying an intervention that the list gives after
\* one of a later frame
C11_Witness ==
  /\ rpc = "returned"
  /\ \E a, b \in Reachable :
       /\ a < b
       /\ ScheduledFrame(a) > ScheduledFrame(b)
       /\ \E i, k \in CallsOf("applyBrush") :
            i < k /\ rlog[i].arg = b /\ rlog[k].arg = a

\* C12: the time recorded on an intervention of frame f is that of
\* f * timestepsPerFrame steps, and the annotation of frame f records that of
\* (f + 1) * timestepsPerFrame steps
C12_RecordedTimes ==
  /\ \A id \in DOMAIN simTime :
       simTime[id] # NoTime => simTime[id] = ScheduledFrame(id) * TimestepsPerFrame
  /\ \A i \in DOMAIN frameAnnotations :
       frameAnnotations[i].simulationTime =
         (frameAnnotations[i].frameIndex + 1) * TimestepsPerFrame
  /\ rpc = "returned" => \A id \in Reachable : simTime[id] # NoTime

\* an intervention of a frame after the first has its time recorded and the
\* frame has its annotation
C12_Witness ==
  \E id \in DOMAIN simTime :
    /\ ScheduledFrame(id) > 0
    /\ simTime[id] # NoTime
    /\ \E i \in DOMAIN frameAnnotations :
         frameAnnotations[i].frameIndex = ScheduledFrame(id)

\* C13: interventions of one frame are applied in the order of the list
C13_SameFrameInListOrder ==
  \A i, k \in CallsOf("applyBrush") :
    (i < k /\ ScheduledFrame(rlog[i].arg) = ScheduledFrame(rlog[k].arg))
      => rlog[i].arg < rlog[k].arg

\* two interventions of one frame were applied, and the list gives an
\* intervention of an earlier frame after them
C13_Witness ==
  \E i, k \in CallsOf("applyBrush") :
    /\ i < k
    /\ ScheduledFrame(rlog[i].arg) = ScheduledFrame(rlog[k].arg)
    /\ \E id \in Reachable :
         /\ id > rlog[k].arg
         /\ ScheduledFrame(id) < ScheduledFrame(rlog[k].arg)

\* the calls of the frame loop that advance, render, capture and persist
FrameCalls ==
  SelectSeq(rlog, LAMBDA c : c.op \in {"stepN", "render", "captureFrame", "saveFrame"})

FrameCallOrder == <<"stepN", "render", "captureFrame", "saveFrame">>

\* C14: the frames are taken in ascending order, each one stepped by
\* timestepsPerFrame steps, rendered, captured and persisted before the next
\* one starts; a run that returned made totalFrames * timestepsPerFrame steps
C14_FramesInSequence ==
  /\ \A i \in DOMAIN FrameCalls :
       FrameCalls[i] = Call(FrameCallOrder[((i - 1) % 4) + 1], (i - 1) \div 4)
  /\ solverSteps = Cardinality(CallsOf("stepN")) * TimestepsPerFrame
  /\ rpc = "returned" =>
       /\ Len(FrameCalls) = 4 * rcfg.totalFrames
       /\ solverSteps = rcfg.totalFrames * TimestepsPerFrame

\* a run of at least two frames returned
C14_Witness ==
  /\ rpc = "returned"
  /\ rcfg.totalFrames >= 2
  /\ Len(FrameCalls) = 4 * rcfg.totalFrames

\* the calls the seed has to precede: those of the runner that can consume
\* randomness, and the page's own initialisation of the preset it loaded
ConsumesRandomness ==
  {"pageInit", "setOption", "updateProblem", "reset", "applyBrush", "stepN"}

\* C15: in a run with a seed, no setOption, updateProblem, reset, applyBrush
\* or stepN and no initialisation of the loaded preset happens before the
\* seed is set
C15_SeedBeforeInitialization ==
  rcfg.randomSeed =>
    \A i \in DOMAIN rlog :
      rlog[i].op \in ConsumesRandomness => \E k \in 1..(i - 1) : rlog[k].op = "setSeed"

\* C16: a rejected call is the last thing a run does: nothing is called or
\* written after it, the run has thrown, and it wrote no metadata
C16_FailureEndsRun ==
  /\ \A i \in CallsOf("rejected") : i = Len(rlog) /\ rpc = "thrown"
  /\ rpc = "thrown" =>
       /\ rlog # <<>>
       /\ rlog[Len(rlog)].op = "rejected"
       /\ CallsOf("writeMetadata") = {}
       /\ Cardinality(CallsOf("rejected")) = 1

\* a run of two frames threw after it had saved the first frame and before
\* it saved the second
C16_Witness ==
  /\ rpc = "thrown"
  /\ rcfg.totalFrames >= 2
  /\ \E k \in CallsOf("saveFrame") : rlog[k].arg = 0
  /\ \A k \in CallsOf("saveFrame") : rlog[k].arg = 0

\* C17: the i-th annotation has frameIndex i (from 0) and was pushed after
\* its frame was saved; a run that returned has totalFrames annotations
C17_OneAnnotationPerFrame ==
  /\ \A i \in DOMAIN frameAnnotations :
       /\ frameAnnotations[i].frameIndex = i - 1
       /\ \E k \in CallsOf("saveFrame") : rlog[k].arg = i - 1
  /\ Len(frameAnnotations) <= Cardinality(CallsOf("saveFrame"))
  /\ rpc = "returned" => Len(frameAnnotations) = rcfg.totalFrames

\* a run of at least two frames returned with its annotations
C17_Witness ==
  /\ rpc = "returned"
  /\ rcfg.totalFrames >= 2
  /\ Len(frameAnnotations) = rcfg.totalFrames

\* the brushes applied for frame f, by position in rlog
BrushesOfFrame(f) ==
  {k \in CallsOf("applyBrush") : ScheduledFrame(rlog[k].arg) = f}

\* C18: the annotation of frame f carries the intervention applied
\* immediately before the step of frame f, the last one when several are
\* scheduled at f, and none exactly when none is scheduled at f
C18_AnnotationCarriesIntervention ==
  \A i \in DOMAIN frameAnnotations :
    LET f == frameAnnotations[i].frameIndex
        applied == BrushesOfFrame(f)
    IN IF applied = {}
         THEN /\ frameAnnotations[i].intervention = NoIntervention
              /\ \A id \in DOMAIN rcfg.interventions : ScheduledFrame(id) # f
         ELSE frameAnnotations[i].intervention =
                rlog[CHOOSE k \in applied : \A m \in applied : m <= k].arg

\* ---- the batch again ----
\* C19: metadata.json of a job is written at most once over the batch, and
\* only with all totalFrames frames of the job persisted
C19_MetadataWrittenOnce ==
  \A j \in Jobs :
    /\ metadataDocs[j] <= 1
    /\ metadataDocs[j] > 0 => frameFiles[j] = FramesWritten(TotalFrames)

RECURSIVE SumOver(_, _)
SumOver(f, S) ==
  IF S = {} THEN 0
  ELSE LET x == CHOOSE y \in S : TRUE IN f[x] + SumOver(f, S \ {x})

PoolPages == Range(availablePages) \cup busyPages

\* a call of releasePage has not returned yet
ReleaseInFlight == \E j \in Jobs : pc[j] \in {"relReset", "relRestart"}

\* C22: after initialize and before shutdown, whenever no releasePage call
\* is in flight, the pool owns exactly poolSize live browser processes and
\* exactly poolSize pages, one page per browser, and every page is either
\* available or busy and not both
C22_PoolOwnsPoolSize ==
  (mainPc = "jobs" /\ ~isShuttingDown /\ ~ReleaseInFlight) =>
    /\ Cardinality(browsers) = PoolSize
    /\ browsers \subseteq processes
    /\ Len(availablePages) + Cardinality(busyPages) = PoolSize
    /\ Cardinality(PoolPages) = PoolSize
    /\ {pageBrowser[p] : p \in PoolPages} = browsers

\* initialize threw: the command has left it and runBatch never filled the
\* job map
InitializeFailed ==
  /\ mainPc # "initialize"
  /\ \A j \in Jobs : status[j] = "absent"

\* C23: when a browser cannot be launched, or its page cannot be created,
\* during initialize, no job is attempted (no acquirePage, no run, no
\* index.json), and once the command has ended every browser process that
\* initialize had launched is closed
C23_InitializeFailureStopsBatch ==
  InitializeFailed =>
    /\ \A j \in Jobs : /\ pc[j] = "queued"
                       /\ acquireCalls[j] = 0 /\ acquireFails[j] = 0
                       /\ runCalls[j] = 0
    /\ indexDocs = <<>>
    /\ mainPc \in {"finally", "draining", "exit"}
    /\ mainPc = "exit" => processes = {} /\ browsers = {}

\* initialize failed after it had launched a browser, and the command ended
C23_Witness ==
  /\ InitializeFailed
  /\ mainPc = "exit"
  /\ simCountPerBrowser # <<>>
  /\ processes = {}

\* C24: once shutdown has been called the flag stays set and no acquirePage
\* returns a page any more, whether pages are available or not: no call has
\* returned a page while the pool was shutting down, and after the browsers
\* were closed no page is leased
C24_NoAcquireAfterShutdown ==
  /\ lateAcquires = 0
  /\ (earlyPc # "idle" \/ mainPc \in {"draining", "exit"}) => isShuttingDown
  /\ (earlyPc = "closed" \/ mainPc = "exit") => busyPages = {}

\* the pool is shutting down with a page available, and an acquirePage of a
\* job has thrown
C24_Witness ==
  /\ isShuttingDown
  /\ availablePages # <<>>
  /\ \E j \in Jobs : acquireFails[j] > 0 /\ acquireCalls[j] = 0

\* a call of shutdown has returned
ShutdownReturned == earlyPc = "closed" \/ mainPc = "exit"

\* C25: once shutdown has returned and every releasePage call in flight has
\* returned, every browser process the pool ever launched has been closed,
\* whatever pages were leased and whatever releases and recycles ran
\* alongside the shutdown
C25_ShutdownClosesEveryProcess ==
  (ShutdownReturned /\ ~ReleaseInFlight) => processes = {}

\* C26: a releasePage whose reset of the page fails still returns normally:
\* a new page of the same browser is pushed into availablePages, and the job
\* keeps the outcome of its run (completed with its result when the run
\* returned, one caught failure when the run threw)
C26_ResetFailureNotSurfaced ==
  [][\A j \in Jobs :
       (/\ pc[j] = "relReset"
        /\ pc'[j] # "relReset"
        /\ page[j] \notin Range(availablePages'))
         => /\ Len(availablePages') = Len(availablePages) + 1
            /\ PopTop(availablePages') \in DOMAIN pageBrowser'
            /\ pageBrowser'[PopTop(availablePages')] = pageBrowser[page[j]]
            /\ runOk[j] => /\ pc'[j] = "done"
                           /\ status'[j] = "completed"
                           /\ j \in results'
            /\ ~runOk[j] => retryCount'[j] = retryCount[j] + 1]_vars

\* no release can come any more: no page is available, leased or being
\* released
NoReleaseToCome ==
  /\ availablePages = <<>>
  /\ busyPages = {}
  /\ ~ReleaseInFlight

\* C27: an acquirePage that waits returns only with a page that a release
\* made available (or throws once shutdown began), and it does not wait for
\* ever while pages are still released: every waiting call returns unless
\* the pool has no page left that could be released
C27_WaitingAcquireReturns ==
  /\ [][\A j \in Jobs :
          (pc[j] = "acquire" /\ pc'[j] # "acquire")
            => \/ /\ availablePages # <<>>
                  /\ page'[j] = PopTop(availablePages)
                  /\ pc'[j] = "run"
               \/ /\ isShuttingDown
                  /\ acquireFails'[j] = acquireFails[j] + 1]_vars
  /\ \A j \in Jobs :
       (pc[j] = "acquire") ~> (pc[j] # "acquire" \/ NoReleaseToCome)

\* a job waits in acquirePage while every page of the pool is leased
C27_Witness ==
  /\ ~isShuttingDown
  /\ availablePages = <<>>
  /\ busyPages # {}
  /\ \E j \in Jobs : pc[j] = "acquire" /\ page[j] = NoPage

\* the jobs whose status is failed
FailedJobs == {j \in Jobs : status[j] = "failed"}

\* C28 as stated: a job that is unresolved when the pool enters shutdown
\* ends through the failure path: status failed, counted in failedCount,
\* with an error.json
C28_ShutdownJobsFail ==
  [][\A j \in Jobs :
       (isShuttingDown /\ pc[j] # "done" /\ pc'[j] = "done")
         => /\ status'[j] = "failed"
            /\ failedCount' = Cardinality(FailedJobs')
            /\ Len(errorDocs'[j]) = 1]_vars

\* C28: a job that is unresolved when the pool enters shutdown is not
\* dropped. Whenever the pool is shutting down, every job that has resolved
\* either completed with its result (the run it had in flight returned) or
\* went through the failure path: all maxRetries + 1 attempts counted in
\* retryCount, status failed, counted in failedCount, and error.json written
\* once unless that write rejected; a job whose acquirePage met the closing
\* pool is among the failed
C28_ShutdownJobsResolve ==
  isShuttingDown =>
    /\ failedCount = Cardinality(FailedJobs)
    /\ \A j \in Jobs :
         Resolved(j) =>
           /\ \/ /\ status[j] = "completed"
                 /\ j \in results
                 /\ runSuccesses[j] >= 1
              \/ /\ status[j] = "failed"
                 /\ j \notin results
                 /\ retryCount[j] = MaxRetries + 1
                 /\ Len(errorDocs[j]) + errorWriteFails[j] = 1
                 /\ errorDocs[j] # <<>> => errorDocs[j][1] = retryCount[j]
           /\ acquireFails[j] > 0 => status[j] = "failed"

\* shutdown was called while job j was in flight: j had run before, met the
\* closing pool in acquirePage, and is resolved as failed with its error.json
C28_Witness ==
  /\ earlyPc # "idle"
  /\ \E j \in Jobs :
       /\ pc[j] = "done"
       /\ status[j] = "failed"
       /\ runCalls[j] > 0
       /\ acquireFails[j] > 0
       /\ errorDocs[j] # <<>>

\* the frame files of job j that its latest call of run wrote
LatestFrames(j) ==
  {name \in DOMAIN frameWriter[j] : frameWriter[j][name] = runCalls[j]}

\* C29: every attempt runs on a page it acquired itself and writes its frame
\* files from index 0 on, replacing those of earlier attempts, so that a job
\* that resolved as completed has every one of its frames from the one run
\* that returned last
C29_RetryStartsOver ==
  \A j \in Jobs :
    /\ runCalls[j] = acquireCalls[j]
    /\ DOMAIN frameWriter[j] = frameFiles[j]
    /\ \E n \in 0..TotalFrames : LatestFrames(j) = FramesWritten(n)
    /\ (Resolved(j) /\ status[j] = "completed")
         => /\ frameFiles[j] = FramesWritten(TotalFrames)
            /\ LatestFrames(j) = frameFiles[j]

\* a job failed an attempt, ran again on a second lease and resolved as
\* completed with all its frames
C29_Witness ==
  \E j \in Jobs :
    /\ Resolved(j)
    /\ status[j] = "completed"
    /\ retryCount[j] = 1
    /\ runCalls[j] = 2
    /\ runSuccesses[j] = 1
    /\ TotalFrames > 0
    /\ LatestFrames(j) = FramesWritten(TotalFrames)

\* orchestrator.ts: getProgress. this.jobs.size is the number of jobs that
\* runBatch has put into the map, queue.pending the number of tasks the
\* queue has started and that have not settled
getProgress ==
  LET total == Cardinality({j \in Jobs : status[j] # "absent"})
      remaining == total - completedCount - failedCount
      queuePending == Cardinality(Running)
  IN [total |-> total,
      completed |-> completedCount,
      failed |-> failedCount,
      running |-> queuePending,
      pending |-> remaining - queuePending]

\* the jobs of the batch whose task the queue has not started
NotStarted == {j \in Jobs : status[j] # "absent" /\ pc[j] = "queued"}

\* C30: at every instant during and after runBatch the counts of the
\* progress report add up to the total, none of them is negative, running
\* is the number of jobs inside their retry loop and pending the number of
\* jobs not yet started
C30_ProgressCountsAddUp ==
  LET r == getProgress
  IN /\ r.completed + r.failed + r.running + r.pending = r.total
     /\ r.completed >= 0 /\ r.failed >= 0 /\ r.running >= 0 /\ r.pending >= 0
     /\ r.running = Cardinality(Running)
     /\ mainPc = "jobs" => r.pending = Cardinality(NotStarted)

\* ---- orchestrator.ts: the entries of index.json ----
\* a path is the sequence of its segments below the working directory; a
\* segment is a pair of a kind and a number
OutputDir == << <<"dir", 0>> >>
JobId(j) == <<"id", j>>
Preset(j) == <<"preset", j % 2>>

\* generateConfigurations: outputDir of a job is <outputDir>/<preset>/<id>
JobOutputDir(j) == OutputDir \o <<Preset(j), JobId(j)>>

\* path.dirname: the path without its last segment, "." for a bare name
Dirname(p) == IF Len(p) <= 1 THEN <<>> ELSE SubSeq(p, 1, Len(p) - 1)

\* the number of leading segments two paths share
RECURSIVE CommonPrefix(_, _)
CommonPrefix(p, q) ==
  IF p = <<>> \/ q = <<>> \/ p[1] # q[1] THEN 0
  ELSE 1 + CommonPrefix(Tail(p), Tail(q))

\* path.relative(from, to): one ".." for every segment of from behind the
\* common prefix, then the rest of to
Relative(from, to) ==
  LET k == CommonPrefix(from, to)
  IN [i \in 1..(Len(from) - k) |-> <<"..", 0>>] \o SubSeq(to, k + 1, Len(to))

\* the entry of index.json for the metadata of job j
IndexEntry(j) ==
  [id |-> JobId(j),
   preset |-> Preset(j),
   path |-> Relative(OutputDir, Dirname(<<JobId(j)>>))]

\* C31: every index.json written holds, for each job in it, the job's id,
\* its preset, and as path the job's output directory relative to the batch
\* output root, <preset>/<job-id>
C31_IndexEntryPaths ==
  \A i \in DOMAIN indexDocs :
    \A j \in indexDocs[i].simulations :
      /\ IndexEntry(j).id = JobId(j)
      /\ IndexEntry(j).preset = Preset(j)
      /\ IndexEntry(j).path = Relative(OutputDir, JobOutputDir(j))
      /\ IndexEntry(j).path = <<Preset(j), JobId(j)>>

\* ---- preset-sampler.ts: generateRandomInterventions, draw by draw ----
\* a draw that forgets the lower bound of the range
randomIntInRangeFromZero(min, max) == 0..max

\* randomIntInRange(min, max) = floor(min + Math.random() * (max + 1 - min))
\* with Math.random() in [0, 1): the values one call can return
randomIntInRange(min, max) == min..max

\* generateRandomInterventions is called with totalFrames and a frequency
\* range of integers 1 <= min <= max
InitGenerator ==
  /\ InitBatch
  /\ RunnerIdle
  /\ gcfg \in {c \in [totalFrames : 0..GenFrames, min : 1..GenMaxFrequency,
                      max : 1..GenMaxFrequency] : c.min <= c.max}
  /\ gpc = "first"
  /\ gframe = 0
  /\ glist = <<>>

\* let frame = randomIntInRange(...)
GenFirst ==
  /\ gpc = "first"
  /\ \E d \in randomIntInRange(gcfg.min, gcfg.max) : gframe' = d
  /\ gpc' = "loop"
  /\ UNCHANGED <<batchVars, runnerVars, gcfg, glist>>

\* one iteration of the while loop: push, then frame += randomIntInRange(...)
GenPush ==
  /\ gpc = "loop"
  /\ gframe < gcfg.totalFrames
  /\ glist' = Append(glist, gframe)
  /\ \E d \in randomIntInRange(gcfg.min, gcfg.max) : gframe' = gframe + d
  /\ UNCHANGED <<batchVars, runnerVars, gcfg, gpc>>

\* the loop ends: return interventions
GenReturn ==
  /\ gpc = "loop"
  /\ gframe >= gcfg.totalFrames
  /\ gpc' = "returned"
  /\ UNCHANGED <<batchVars, runnerVars, gcfg, gframe, glist>>

NextGenerator == GenFirst \/ GenPush \/ GenReturn

\* the call runs on once started
SpecGenerator ==
  InitGenerator /\ [][NextGenerator]_vars /\ WF_vars(NextGenerator)

\* C32: for every totalFrames and every range of integers 1 <= min <= max
\* the generation of the schedule terminates, the frames of the list are
\* strictly increasing in list order, and every frame f satisfies
\* min <= f < totalFrames
C32_ScheduleMonotonic ==
  /\ [](/\ \A i \in DOMAIN glist : gcfg.min <= glist[i] /\ glist[i] < gcfg.totalFrames
        /\ \A i \in DOMAIN glist : i > 1 => glist[i - 1] < glist[i])
  /\ <>(gpc = "returned")

\* a call has returned a schedule of several interventions
C32_Witness ==
  /\ gpc = "returned"
  /\ Len(glist) >= 2
  /\ gcfg.min < gcfg.max

\* the calls that belong to the frame loop
LoopOps == {"applyBrush", "stepN", "render", "captureFrame", "saveFrame"}

\* the run has gone past the reset of the simulation
PastReset == CallsOf("reset") # {}

C34_BackoffLinearNoneAfterSuccess ==
  \A j \in Jobs :
    /\ Len(backoffs[j]) <= MaxRetries
    /\ \A k \in DOMAIN backoffs[j] : backoffs[j][k] = BackoffBase * k
    /\ Len(backoffs[j]) = (IF pc[j] = "backoff" THEN attempt[j] + 1 ELSE attempt[j])
    /\ runSuccesses[j] > 0 =>
         /\ pc[j] # "backoff"
         /\ runCalls[j] = runSuccesses[j] + Len(backoffs[j])
         /\ runSuccesses[j] = 1

\* the waits behind failed attempts alone: linear in the attempt number, and
\* none behind the last attempt
BackoffsLinear ==
  \A j \in Jobs :
    /\ Len(backoffs[j]) <= MaxRetries
    /\ \A k \in DOMAIN backoffs[j] : backoffs[j][k] = BackoffBase * k
    /\ Len(backoffs[j]) = (IF pc[j] = "backoff" THEN attempt[j] + 1 ELSE attempt[j])

\* the jobs whose retry loop has started
Started == {j \in Jobs : pc[j] # "queued"}

\* the jobs whose run has returned and whose return awaits releasePage
ReturnPending == {j \in Jobs : runOk[j]}

\* C35: every job is counted at most once across completedCount and
\* failedCount: the two together never exceed the number of jobs whose retry
\* loop has started, and completedCount is the number of results collected,
\* a job whose return is still pending behind its releasePage counted with them
C35_CountedAtMostOnce ==
  /\ completedCount + failedCount <= Cardinality(Started)
  /\ completedCount = Cardinality(results \cup ReturnPending)

\* the attempts of job j that failed: acquirePage threw, or run threw and the
\* catch block has been reached
FailedAttempts(j) ==
  acquireFails[j] + runCalls[j] - runSuccesses[j]
    - (IF pc[j] \in {"run", "relReset", "relRestart"} /\ ~runOk[j] THEN 1 ELSE 0)

\* the steps of job.status that runWithRetry is meant to take
LifecycleStep(from, to) ==
  \/ from = to
  \/ from = "absent" /\ to = "pending"
  \/ from = "pending" /\ to = "running"
  \/ from = "running" /\ to \in {"completed", "failed"}

\* C36: job.status only moves pending -> running -> completed or failed, the
\* two last being absorbing; no job has an error document and the status
\* completed; retryCount is the number of failed attempts of the job and is
\* at most maxRetries + 1
C36_LifecycleOneWay ==
  /\ [](\A j \in Jobs :
          /\ ~(status[j] = "completed" /\ errorDocs[j] # <<>>)
          /\ retryCount[j] = FailedAttempts(j)
          /\ retryCount[j] <= MaxRetries + 1)
  /\ [][\A j \in Jobs : LifecycleStep(status[j], status'[j])]_vars

\* C37: a job holds no session while it waits in retry backoff nor before
\* its next attempt has acquired one, it holds one session at most and no
\* session another job holds, and every session it has acquired has been
\* given to releasePage unless its run is still going on: the release of a
\* failed attempt has returned when the backoff wait starts
C37_NoSessionInBackoff ==
  \A j \in Jobs :
    /\ pc[j] \in {"queued", "acquire", "backoff", "errdoc", "done"} => page[j] = NoPage
    /\ pc[j] \in {"run", "relReset", "relRestart"} => page[j] # NoPage
    /\ acquireCalls[j] = releaseCalls[j] + (IF pc[j] = "run" THEN 1 ELSE 0)
    /\ \A k \in Jobs : k # j /\ page[j] # NoPage => page[k] # page[j]

\* a job waits in backoff after an attempt that held a session, which it has
\* released
C37_Witness ==
  \E j \in Jobs :
    /\ pc[j] = "backoff"
    /\ acquireCalls[j] >= 1
    /\ releaseCalls[j] = acquireCalls[j]
    /\ page[j] = NoPage

\* the calls of applyBrush for intervention id
BrushesOf(id) == {i \in CallsOf("applyBrush") : rlog[i].arg = id}

\* C38: no intervention is applied twice; one whose frame is not below
\* totalFrames is never applied and never gets a simulation time; a run that
\* returned has applied every intervention whose frame is below totalFrames
\* exactly once and recorded its time
C38_AppliedOnceOrNever ==
  \A id \in DOMAIN rcfg.interventions :
    /\ Cardinality(BrushesOf(id)) <= 1
    /\ ScheduledFrame(id) >= rcfg.totalFrames =>
         /\ BrushesOf(id) = {}
         /\ simTime[id] = NoTime
    /\ rpc = "returned" /\ ScheduledFrame(id) < rcfg.totalFrames =>
         /\ Cardinality(BrushesOf(id)) = 1
         /\ simTime[id] # NoTime

\* a run returned over a list with an intervention it applied and one whose
\* frame lies at or behind totalFrames
C38_Witness ==
  /\ rpc = "returned"
  /\ \E a, b \in DOMAIN rcfg.interventions :
       /\ ScheduledFrame(a) < rcfg.totalFrames
       /\ BrushesOf(a) # {}
       /\ ScheduledFrame(b) >= rcfg.totalFrames
       /\ simTime[b] = NoTime
====
